---------------------------- MODULE Spec2Model ----------------------------
(***************************************************************************)
(* State-machine model of the DF2 circle rasterizer                        *)
(* (src/src/df2_circle_benchmark.c and src/src/fair_comparison.c).         *)
(*                                                                         *)
(* All machine integers are 32-bit two's complement; TLC's own integers    *)
(* are 32 bits wide too, so every 64-bit intermediate of the C code is     *)
(* computed here on 16-bit halves.                                         *)
(***************************************************************************)
EXTENDS Integers, Sequences, FiniteSets, TLC

VARIABLES
    fb,      \* the surface: [width, height, pixels]; pixels = indices holding 1
    pc,      \* "idle" | "loop" | "done": position of the current call
    alg,     \* name of the function being executed
    cx, cy,  \* center arguments of the call
    r,       \* radius argument of the call
    coeff,   \* fixed_t / double local: 2*cos(omega)
    scale,   \* fixed_t / double local: -1/omega
    c, s,    \* fixed_t locals of the coupled form: cos(omega), sin(omega)
    w0, w1,  \* DF2 state w[n-2], w[n-1]
    x, y,    \* DF2: int sample; coupled form: state; Bresenham: int pair
    ix, iy,  \* coupled form: int sample
    d,       \* Bresenham decision variable
    i,       \* loop counter of df2_full / analyze_stability
    steps,   \* precomputed step count of df2_full / analyze_stability
    oct,     \* bres_full: which of its eight loops is running (1..8)
    pixels,  \* int local "pixels" (circle_*) or "drawn" (df2_full)
    ret,     \* value returned by the last completed call
    fb0,     \* pixels of the surface when the current call was entered
    calls,   \* arguments of the plot calls issued by the last expansion / plot
    revolutions,       \* analyze_stability: its second argument
    max_amp, min_amp,  \* analyze_stability: double locals
    drift,   \* analyze_stability: *drift, as <<dividend, divisor>>
    quadrants,  \* quadrants the samples of the current call have fallen in
    closed   \* a sample has come back to (r, 0) after all four quadrants

vars == <<fb, pc, alg, cx, cy, r, coeff, scale, c, s, w0, w1, x, y, ix, iy,
          d, i, steps, oct, pixels, ret, fb0, calls, revolutions, max_amp,
          min_amp, drift, quadrants, closed>>

-----------------------------------------------------------------------------
(* Bounds of the model *)

MaxWidth == 4       \* surfaces are MinWidth..MaxWidth wide
MaxHeight == 3      \* and MinHeight..MaxHeight high
MaxCenter == 1      \* centers range over -MaxCenter..MaxCenter
MaxCoord == 3       \* direct plot targets range over -MaxCoord..MaxCoord
MaxSample == 2      \* direct expansion samples range over 0..MaxSample
MaxRadius == 3      \* radii of the general specification: MinRadius..MaxRadius
MaxBenchRadius == 100  \* radii of the benchmark specification: 1..MaxBenchRadius
MaxTermRadius == 8  \* small radii of the termination specification
MaxCmpRadius == 4   \* radii of the comparison specification: 1..MaxCmpRadius
MaxStabSteps == 400 \* iterations of analyze_stability that are followed
MaxFullRadius == 100  \* the full-circle sweep runs at the multiples of 25 up to here
MaxFixedHalves == 40  \* fixed_to_int is applied around the first multiples of 1/2
MaxPixels == 2000   \* the plot counter of the Q16.16 DF2 sweep is followed up to here

MinWidth == MaxWidth - 1
MinHeight == MaxHeight - 1
MinRadius == 0 - 5

-----------------------------------------------------------------------------
(* 32-bit int arithmetic *)

FP_BITS == 16
FP_ONE == 65536
FP_HALF == 32768

INT_MAX == 2147483647
INT_MIN == (0 - 2147483647) - 1

\* a + b on int; a sum outside the int range wraps modulo 2^32, the outcome of
\* the two's complement add instruction the build emits
IntAdd(a, b) ==
    IF a >= 0 /\ b >= 0 /\ a > INT_MAX - b
    THEN (a + INT_MIN) + (b + INT_MIN)
    ELSE IF a < 0 /\ b < 0 /\ a < INT_MIN - b
         THEN (a - INT_MIN) + (b - INT_MIN)
         ELSE a + b

\* a - b on int, same wrap-around
IntSub(a, b) ==
    IF b = INT_MIN THEN IntAdd(IntAdd(a, INT_MAX), 1) ELSE IntAdd(a, 0 - b)

Lo16(a) == a % 65536
Hi16(a) == a \div 65536

\* floor(al * bl / 2^16) for al, bl in 0..65535, without leaving 32 bits
MulShr16(al, bl) ==
    ((al \div 256) * bl + (((al % 256) * bl) \div 256)) \div 256

\* the int whose two's complement halves are hi, lo (both in 0..65535)
FromHalves(hi, lo) ==
    IF hi >= 32768 THEN (hi - 65536) * 65536 + lo ELSE hi * 65536 + lo

\* (fixed_t)(((int64_t)a * b) >> FP_BITS): the 64-bit product, shifted
\* arithmetically, truncated to 32 bits
fp_mul(a, b) ==
    LET ah == Hi16(a)
        al == Lo16(a)
        bh == Hi16(b)
        bl == Lo16(b)
        t1 == ah * bl
        t2 == al * bh
        t3 == MulShr16(al, bl)
        lo == Lo16(t1) + Lo16(t2) + t3
        hi == ah * bh + Hi16(t1) + Hi16(t2) + (lo \div 65536)
    IN  FromHalves(hi % 65536, lo % 65536)

\* fixed_to_int without the half-unit bias: the shift alone
fixed_to_int_trunc(f) == f \div FP_ONE

\* fixed_to_int rounding as the library's round does: ties away from zero
fixed_to_int_half_away(f) ==
    IF f >= 0 THEN (f + FP_HALF) \div FP_ONE
              ELSE (f + FP_HALF - 1) \div FP_ONE

\* (f + FP_HALF) >> FP_BITS
fixed_to_int(f) == IntAdd(f, FP_HALF) \div FP_ONE

-----------------------------------------------------------------------------
(* double values.  A double v is the pair <<n, f>> with v = n + f / 2^30,    *)
(* n = floor(v) and 0 <= f < 2^30.  The tables hold, for r = 1, 2, ...,      *)
(* libm's values for omega = 1.0 / (1.5 * r), rounded to a multiple of 2^-30.*)

Q30 == 1073741824

\* 1 - cos(omega)
OneMinusCosTable ==
    <<229901803, 59102029, 26403220, 14878592, 9530240, 6621220, 4865898, 3726113,
      2944447, 2385209, 1971374, 1656583, 1411580, 1217164, 1060311, 931933,
      825532, 736364, 660900, 596468, 541019, 492957, 451026, 414226,
      381752, 352953, 327294, 304334, 283708, 265111, 248283, 233008,
      219101, 206403, 194777, 184107, 174290, 165238, 156873, 149127,
      141942, 135263, 129045, 123246, 117830, 112762, 108015, 103561,
      99378, 95442, 91736, 88242, 84943, 81827, 78878, 76086,
      73440, 70929, 68545, 66280, 64124, 62073, 60118, 58254,
      56475, 54777, 53154, 51602, 50117, 48695, 47333, 46028,
      44775, 43573, 42419, 41310, 40244, 39219, 38232, 37282,
      36368, 35486, 34636, 33816, 33025, 32262, 31524, 30812,
      30123, 29458, 28814, 28191, 27588, 27004, 26439, 25891,
      25360, 24845, 24345, 23861, 23391, 22934, 22491, 22061,
      21642, 21236, 20841, 20457, 20083, 19720>>

\* r - r * cos(omega)
RMinusRCosTable ==
    <<229901803, 118204058, 79209659, 59514367, 47651202, 39727319, 34061285, 29808905,
      26500023, 23852093, 21685115, 19878994, 18350539, 17040301, 15904668, 14910923,
      14034042, 13254557, 12557096, 11929360, 11361393, 10845047, 10373591, 9941415,
      9543806, 9176778, 8836932, 8521358, 8227544, 7953316, 7696777, 7456271,
      7230339, 7017696, 6817202, 6627847, 6448725, 6279031, 6118038, 5965094,
      5819611, 5681054, 5548942, 5422835, 5302332, 5187068, 5076708, 4970947,
      4869502, 4772115, 4678547, 4588577, 4502003, 4418635, 4338298, 4260830,
      4186080, 4113908, 4044182, 3976781, 3911589, 3848500, 3787414, 3728237,
      3670880, 3615262, 3561303, 3508932, 3458079, 3408678, 3360670, 3313994,
      3268598, 3224428, 3181436, 3139576, 3098803, 3059075, 3020353, 2982599,
      2945777, 2909853, 2874795, 2840572, 2807154, 2774513, 2742622, 2711456,
      2680991, 2651202, 2622068, 2593568, 2565680, 2538386, 2511666, 2485503,
      2459880, 2434779, 2410186, 2386084, 2362460, 2339298, 2316587, 2294312,
      2272462, 2251024, 2229986, 2209338, 2189069, 2169169>>

\* sin(omega)
SinTable ==
    <<663969520, 351322631, 236650275, 178129616, 142741759, 119059316, 102106606, 89374958,
      79463716, 71529776, 65035431, 59621643, 55039552, 51111242, 47706149, 44726298,
      42096731, 39759124, 37667422, 35784766, 34081317, 32532652, 31118594, 29822326,
      28629722, 27528825, 26509450, 25562866, 24681546, 23858966, 23089442, 22368003,
      21690279, 21052412, 20450989, 19882971, 19345653, 18836610, 18353667, 17894869,
      17458447, 17042805, 16646493, 16268193, 15906704, 15560931, 15229870, 14912601,
      14608282, 14316133, 14035441, 13765544, 13505830, 13255735, 13014734, 12782339,
      12558098, 12341588, 12132418, 11930219, 11734650, 11545389, 11362135, 11184608,
      11012544, 10845693, 10683822, 10526712, 10374156, 10225958, 10081935, 9941912,
      9805725, 9673219, 9544246, 9418667, 9296350, 9177169, 9061005, 8947745,
      8837281, 8729512, 8624340, 8521671, 8421418, 8323497, 8227826, 8134330,
      8042935, 7953570, 7866170, 7780670, 7697008, 7615126, 7534968, 7456481,
      7379611, 7304310, 7230530, 7158226, 7087353, 7017870, 6949737, 6882913,
      6817363, 6753049, 6689937, 6627994, 6567187, 6507486>>

OneMinusCos(rr) ==
    IF rr <= Len(OneMinusCosTable) THEN OneMinusCosTable[rr]
    ELSE CASE rr = 30000 -> 0

RMinusRCos(rr) ==
    IF rr <= Len(RMinusRCosTable) THEN RMinusRCosTable[rr]
    ELSE CASE rr = 30000 -> 7954

SinOmega(rr) ==
    IF rr <= Len(SinTable) THEN SinTable[rr]
    ELSE CASE rr = 30000 -> 23861

\* cos(omega)
cos_omega(rr) ==
    IF OneMinusCos(rr) = 0 THEN <<1, 0>> ELSE <<0, Q30 - OneMinusCos(rr)>>

\* 2.0 * cos(omega)
two_cos_omega(rr) ==
    IF OneMinusCos(rr) = 0 THEN <<2, 0>> ELSE <<1, Q30 - 2 * OneMinusCos(rr)>>

\* r * cos(omega)
r_cos_omega(rr) ==
    IF RMinusRCos(rr) = 0 THEN <<rr, 0>> ELSE <<rr - 1, Q30 - RMinusRCos(rr)>>

\* sin(omega)
sin_omega(rr) == <<0, SinOmega(rr)>>

\* -1.0 / omega, which is -1.5 * r
neg_inv_omega(rr) == <<(0 - 3 * rr) \div 2, ((0 - 3 * rr) % 2) * (Q30 \div 2)>>

\* (double)r
int_to_double(rr) == <<rr, 0>>

\* to_fixed without the +-0.5: the cast alone, which truncates toward zero
to_fixed_trunc(v) ==
    LET n == v[1]
        f == v[2]
    IN  IF n >= 0
        THEN IF n <= 32767 THEN {n * FP_ONE + f \div (Q30 \div FP_ONE)}
             ELSE {INT_MIN, INT_MAX}
        ELSE IF n >= 0 - 32768
             THEN {n * FP_ONE - ((0 - f) \div (Q30 \div FP_ONE))}
             ELSE {INT_MIN}

\* (fixed_t)(d * FP_ONE + (d >= 0 ? 0.5 : -0.5)): the set of values the
\* conversion can yield.  The cast truncates toward zero; a value outside the
\* int range is undefined behaviour, which yields INT_MIN on x86 (cvttsd2si)
\* and the saturated bound on targets with a saturating conversion.
to_fixed(v) ==
    LET n == v[1]
        f == v[2]
        half == (Q30 \div FP_ONE) \div 2
    IN  IF n >= 0
        THEN LET q == (f + half) \div (Q30 \div FP_ONE)
             IN  IF n < 32767 \/ (n = 32767 /\ q < FP_ONE)
                 THEN {n * FP_ONE + q}
                 ELSE {INT_MIN, INT_MAX}
        ELSE LET q == (half - f) \div (Q30 \div FP_ONE)
             IN  IF n >= 0 - 32768
                 THEN {n * FP_ONE - q}
                 ELSE {INT_MIN}

-----------------------------------------------------------------------------
(* Framebuffer (df2_circle_benchmark.c) and FB (fair_comparison.c) *)

fb_create(w, h) == [width |-> w, height |-> h, pixels |-> {}]

fb_clear(f) == [f EXCEPT !.pixels = {}]

\* fb_plot with the row stride taken from the height
fb_plot_height_stride(f, px, py) ==
    LET qx == px + f.width \div 2
        qy == py + f.height \div 2
    IN  IF qx >= 0 /\ qx < f.width /\ qy >= 0 /\ qy < f.height
        THEN [f EXCEPT !.pixels = @ \cup {qy * f.height + qx}]
        ELSE f

\* fb_plot with an inclusive upper bound on the column
fb_plot_inclusive_bound(f, px, py) ==
    LET qx == px + f.width \div 2
        qy == py + f.height \div 2
    IN  IF qx >= 0 /\ qx <= f.width /\ qy >= 0 /\ qy < f.height
        THEN [f EXCEPT !.pixels = @ \cup {qy * f.width + qx}]
        ELSE f

fb_plot(f, px, py) ==
    LET qx == px + f.width \div 2
        qy == py + f.height \div 2
    IN  IF qx >= 0 /\ qx < f.width /\ qy >= 0 /\ qy < f.height
        THEN [f EXCEPT !.pixels = @ \cup {qy * f.width + qx}]
        ELSE f

\* fb_plot8 with a wrong coordinate in its fifth call
fb_plot8_calls_typo(ccx, ccy, px, py) ==
    << <<ccx + px, ccy + py>>, <<ccx - px, ccy + py>>,
       <<ccx + px, ccy - py>>, <<ccx - px, ccy - py>>,
       <<ccx + py, ccy + py>>, <<ccx - py, ccy + px>>,
       <<ccx + py, ccy - px>>, <<ccx - py, ccy - px>> >>

\* the arguments of the eight fb_plot calls of fb_plot8, in call order
fb_plot8_calls(ccx, ccy, px, py) ==
    << <<ccx + px, ccy + py>>, <<ccx - px, ccy + py>>,
       <<ccx + px, ccy - py>>, <<ccx - px, ccy - py>>,
       <<ccx + py, ccy + px>>, <<ccx - py, ccy + px>>,
       <<ccx + py, ccy - px>>, <<ccx - py, ccy - px>> >>

\* fb_plot8: the eight fb_plot calls.  A call only ever adds its pixel to the
\* surface, so the surface after the eight calls is the union of what each
\* call yields on the surface at entry
fb_plot8(f, ccx, ccy, px, py) ==
    LET t == fb_plot8_calls(ccx, ccy, px, py)
    IN  [f EXCEPT !.pixels =
            UNION {fb_plot(f, t[k][1], t[k][2]).pixels : k \in 1 .. Len(t)}]

fb_count_pixels(f) == Cardinality(f.pixels)

plot(f, px, py) ==
    LET qx == px + f.width \div 2
        qy == py + f.height \div 2
    IN  IF qx >= 0 /\ qx < f.width /\ qy >= 0 /\ qy < f.height
        THEN [f EXCEPT !.pixels = @ \cup {qy * f.width + qx}]
        ELSE f

\* the arguments of the eight plot calls of plot8, in call order
plot8_calls(px, py) ==
    << <<px, py>>, <<0 - px, py>>, <<px, 0 - py>>, <<0 - px, 0 - py>>,
       <<py, px>>, <<0 - py, px>>, <<py, 0 - px>>, <<0 - py, 0 - px>> >>

\* plot8: the eight plot calls, as in fb_plot8
plot8(f, px, py) ==
    LET t == plot8_calls(px, py)
    IN  [f EXCEPT !.pixels =
            UNION {plot(f, t[k][1], t[k][2]).pixels : k \in 1 .. Len(t)}]

count_px(f) == Cardinality(f.pixels)

-----------------------------------------------------------------------------
(* Input sets *)

Widths == MinWidth..MaxWidth
Heights == MinHeight..MaxHeight
Centers == (0 - MaxCenter)..MaxCenter
Coords == (0 - MaxCoord)..MaxCoord
Samples == 0..MaxSample
Radii == MinRadius..MaxRadius
BenchRadii == 1..MaxBenchRadius

\* what a surface may hold before an operation: nothing, everything, or one
\* pixel in the first row
InitPixels(w, h) == {{}, 0..(w * h - 1), {w - 1}}

locals == <<coeff, scale, c, s, w0, w1, x, y, ix, iy, d, i, steps, oct, pixels>>

\* the state of the analyzer
stab == <<revolutions, max_amp, min_amp, drift>>

\* the record of the trajectory of the current call
trail == <<quadrants, closed>>

InitOn(f) ==
    /\ fb = f
    /\ pc = "idle"
    /\ alg = "none"
    /\ cx = 0 /\ cy = 0 /\ r = 0
    /\ coeff = 0 /\ scale = 0 /\ c = 0 /\ s = 0
    /\ w0 = 0 /\ w1 = 0 /\ x = 0 /\ y = 0 /\ ix = 0 /\ iy = 0
    /\ d = 0 /\ i = 0 /\ steps = 0 /\ oct = 0 /\ pixels = 0
    /\ ret = 0
    /\ fb0 = f.pixels
    /\ calls = <<>>
    /\ revolutions = 0 /\ max_amp = 0 /\ min_amp = 0
    /\ drift = <<0, 1>>
    /\ quadrants = {} /\ closed = FALSE

Init ==
    \E w \in Widths, h \in Heights :
      \E p \in InitPixels(w, h) : InitOn([fb_create(w, h) EXCEPT !.pixels = p])

\* entry of a call: the arguments are bound and the surface is remembered
Enter(name, ccx, ccy, rr) ==
    /\ pc = "idle"
    /\ alg' = name
    /\ cx' = ccx /\ cy' = ccy /\ r' = rr
    /\ fb0' = fb.pixels
    /\ quadrants' = {} /\ closed' = FALSE
    /\ UNCHANGED stab

-----------------------------------------------------------------------------
(* The harness: fb_clear before every call (run_benchmark, main) *)

FbClear ==
    /\ pc \in {"idle", "done"}
    /\ fb' = fb_clear(fb)
    /\ pc' = "idle"
    /\ alg' = "none"
    /\ cx' = 0 /\ cy' = 0 /\ r' = 0
    /\ coeff' = 0 /\ scale' = 0 /\ c' = 0 /\ s' = 0
    /\ w0' = 0 /\ w1' = 0 /\ x' = 0 /\ y' = 0 /\ ix' = 0 /\ iy' = 0
    /\ d' = 0 /\ i' = 0 /\ steps' = 0 /\ oct' = 0 /\ pixels' = 0
    /\ ret' = 0
    /\ fb0' = {}
    /\ calls' = <<>>
    /\ revolutions' = 0 /\ max_amp' = 0 /\ min_amp' = 0
    /\ drift' = <<0, 1>>
    /\ quadrants' = {} /\ closed' = FALSE

-----------------------------------------------------------------------------
(* Direct calls of the plot primitives *)

FbPlot(px, py) ==
    /\ Enter("fb_plot", 0, 0, 0)
    /\ fb' = fb_plot(fb, px, py)
    /\ calls' = << <<px, py>> >>
    /\ pc' = "done"
    /\ UNCHANGED <<locals, ret>>

Plot(px, py) ==
    /\ Enter("plot", 0, 0, 0)
    /\ fb' = plot(fb, px, py)
    /\ calls' = << <<px, py>> >>
    /\ pc' = "done"
    /\ UNCHANGED <<locals, ret>>

FbPlot8(ccx, ccy, px, py) ==
    /\ Enter("fb_plot8", ccx, ccy, 0)
    /\ fb' = fb_plot8(fb, ccx, ccy, px, py)
    /\ calls' = fb_plot8_calls(ccx, ccy, px, py)
    /\ x' = px /\ y' = py
    /\ pc' = "done"
    /\ UNCHANGED <<coeff, scale, c, s, w0, w1, ix, iy, d, i, steps, oct,
                   pixels, ret>>

Plot8(px, py) ==
    /\ Enter("plot8", 0, 0, 0)
    /\ fb' = plot8(fb, px, py)
    /\ calls' = plot8_calls(px, py)
    /\ x' = px /\ y' = py
    /\ pc' = "done"
    /\ UNCHANGED <<coeff, scale, c, s, w0, w1, ix, iy, d, i, steps, oct,
                   pixels, ret>>

-----------------------------------------------------------------------------
(* DF2 form, Q16.16 *)

\* int x = fixed_to_int(w1)
df2_fixed_x(ww1) == fixed_to_int(ww1)

\* int y = fixed_to_int(fp_mul(w1 - w0, scale))
df2_fixed_y(ww0, ww1, sc) == fixed_to_int(fp_mul(IntSub(ww1, ww0), sc))

\* fixed_t w2 = fp_mul(coeff, w1) - w0
df2_fixed_w2(co, ww0, ww1) == IntSub(fp_mul(co, ww1), ww0)

\* pixels += 8.  The counter feeds nothing but the return value; above
\* MaxPixels, which no returning sweep of the radii modelled reaches, it is no
\* longer followed, so that a loop that repeats its recurrence state repeats
\* the state of the model
df2_fixed_pixels(p) == IF p + 8 > MaxPixels THEN p ELSE p + 8

\* the coefficients and the initial state of the Q16.16 DF2 sweeps
df2_fixed_setup(rr) ==
    /\ coeff' \in to_fixed(two_cos_omega(rr))
    /\ scale' \in to_fixed(neg_inv_omega(rr))
    /\ w0' \in to_fixed(r_cos_omega(rr))
    /\ w1' \in to_fixed(int_to_double(rr))

circle_df2_fixed_sym8_call(ccx, ccy, rr) ==
    /\ Enter("circle_df2_fixed_sym8", ccx, ccy, rr)
    /\ calls' = <<>>
    /\ IF rr <= 0
       THEN /\ pc' = "done"
            /\ ret' = 0
            /\ UNCHANGED <<fb, locals>>
       ELSE /\ pc' = "loop"
            /\ df2_fixed_setup(rr)
            /\ pixels' = 0
            /\ UNCHANGED <<fb, c, s, x, y, ix, iy, d, i, steps, oct, ret>>

circle_df2_fixed_sym8_step ==
    /\ pc = "loop"
    /\ alg = "circle_df2_fixed_sym8"
    /\ x' = df2_fixed_x(w1)
    /\ y' = df2_fixed_y(w0, w1, scale)
    /\ IF y' > x'
       THEN /\ pc' = "done"
            /\ ret' = pixels
            /\ UNCHANGED <<fb, w0, w1, pixels, calls>>
       ELSE /\ fb' = fb_plot8(fb, cx, cy, x', y')
            /\ calls' = fb_plot8_calls(cx, cy, x', y')
            /\ pixels' = df2_fixed_pixels(pixels)
            /\ w1' = df2_fixed_w2(coeff, w0, w1)
            /\ w0' = w1
            /\ UNCHANGED <<pc, ret>>
    /\ UNCHANGED <<alg, cx, cy, r, coeff, scale, c, s, ix, iy, d, i, steps,
                   oct, fb0, stab, trail>>


\* int steps = (int)(2.0 * M_PI / omega) + 10, with 2*pi/omega = 3*pi*r:
\* floor(3 * pi * r) from pi = 3.14159265358979..., exact for r below 10^4
df2_full_steps(rr) ==
    (rr * 9 + (rr * 4247 + (rr * 7796 + (rr * 769) \div 10000) \div 10000)
        \div 10000) + 10

df2_sym8_call(rr) ==
    /\ Enter("df2_sym8", 0, 0, rr)
    /\ calls' = <<>>
    /\ IF rr <= 0
       THEN /\ pc' = "done"
            /\ ret' = 0
            /\ UNCHANGED <<fb, locals>>
       ELSE /\ pc' = "loop"
            /\ df2_fixed_setup(rr)
            /\ UNCHANGED <<fb, c, s, x, y, ix, iy, d, i, steps, oct, pixels,
                           ret>>

df2_sym8_step ==
    /\ pc = "loop"
    /\ alg = "df2_sym8"
    /\ x' = df2_fixed_x(w1)
    /\ y' = df2_fixed_y(w0, w1, scale)
    /\ IF y' > x'
       THEN /\ pc' = "done"
            /\ ret' = count_px(fb)
            /\ UNCHANGED <<fb, w0, w1, calls>>
       ELSE /\ fb' = plot8(fb, x', y')
            /\ calls' = plot8_calls(x', y')
            /\ w1' = df2_fixed_w2(coeff, w0, w1)
            /\ w0' = w1
            /\ UNCHANGED <<pc, ret>>
    /\ UNCHANGED <<alg, cx, cy, r, coeff, scale, c, s, ix, iy, d, i, steps,
                   oct, pixels, fb0, stab, trail>>

df2_full_call(rr) ==
    /\ Enter("df2_full", 0, 0, rr)
    /\ calls' = <<>>
    /\ IF rr <= 0
       THEN /\ pc' = "done"
            /\ ret' = 0
            /\ UNCHANGED <<fb, locals>>
       ELSE /\ pc' = "loop"
            /\ df2_fixed_setup(rr)
            /\ steps' = df2_full_steps(rr)
            /\ i' = 0
            /\ pixels' = 0
            /\ UNCHANGED <<fb, c, s, x, y, ix, iy, d, oct, ret>>

\* the quadrant a sample lies in: none for a sample on an axis
quadrant_of(xx, yy) ==
    IF xx > 0 /\ yy > 0 THEN {1}
    ELSE IF xx < 0 /\ yy > 0 THEN {2}
    ELSE IF xx < 0 /\ yy < 0 THEN {3}
    ELSE IF xx > 0 /\ yy < 0 THEN {4}
    ELSE {}

\* df2_full counting every sample that falls on the surface, set before or not
df2_full_step_counting_hits ==
    /\ pc = "loop"
    /\ alg = "df2_full"
    /\ IF i < steps
       THEN /\ x' = df2_fixed_x(w1)
            /\ y' = df2_fixed_y(w0, w1, scale)
            /\ LET px == x' + fb.width \div 2
                   py == y' + fb.height \div 2
               IN  IF px >= 0 /\ px < fb.width /\ py >= 0 /\ py < fb.height
                   THEN /\ fb' = [fb EXCEPT !.pixels =
                                     @ \cup {py * fb.width + px}]
                        /\ pixels' = pixels + 1
                   ELSE UNCHANGED <<fb, pixels>>
            /\ calls' = << <<x', y'>> >>
            /\ w1' = df2_fixed_w2(coeff, w0, w1)
            /\ w0' = w1
            /\ i' = i + 1
            /\ quadrants' = quadrants \cup quadrant_of(x', y')
            /\ closed' = (closed \/ (quadrants = 1 .. 4 /\ x' = r /\ y' = 0))
            /\ UNCHANGED <<pc, ret>>
       ELSE /\ pc' = "done"
            /\ ret' = pixels
            /\ UNCHANGED <<fb, x, y, w0, w1, i, pixels, calls, trail>>
    /\ UNCHANGED <<alg, cx, cy, r, coeff, scale, c, s, ix, iy, d, steps, oct,
                   fb0, stab>>

\* one pass of the for statement: the test i < steps, then the body and i++,
\* or the return
df2_full_step ==
    /\ pc = "loop"
    /\ alg = "df2_full"
    /\ IF i < steps
       THEN /\ x' = df2_fixed_x(w1)
            /\ y' = df2_fixed_y(w0, w1, scale)
            /\ LET px == x' + fb.width \div 2
                   py == y' + fb.height \div 2
               IN  IF /\ px >= 0 /\ px < fb.width /\ py >= 0 /\ py < fb.height
                      /\ (py * fb.width + px) \notin fb.pixels
                   THEN /\ fb' = [fb EXCEPT !.pixels =
                                     @ \cup {py * fb.width + px}]
                        /\ pixels' = pixels + 1
                   ELSE UNCHANGED <<fb, pixels>>
            /\ calls' = << <<x', y'>> >>
            /\ w1' = df2_fixed_w2(coeff, w0, w1)
            /\ w0' = w1
            /\ i' = i + 1
            /\ quadrants' = quadrants \cup quadrant_of(x', y')
            /\ closed' = (closed \/ (quadrants = 1 .. 4 /\ x' = r /\ y' = 0))
            /\ UNCHANGED <<pc, ret>>
       ELSE /\ pc' = "done"
            /\ ret' = pixels
            /\ UNCHANGED <<fb, x, y, w0, w1, i, pixels, calls, trail>>
    /\ UNCHANGED <<alg, cx, cy, r, coeff, scale, c, s, ix, iy, d, steps, oct,
                   fb0, stab>>

-----------------------------------------------------------------------------
(* Coupled form, Q16.16 *)

\* fixed_t xn = fp_mul(x, c) - fp_mul(y, s)
coupled_fixed_xn(xx, yy, cc, ss) == IntSub(fp_mul(xx, cc), fp_mul(yy, ss))

\* fixed_t yn = fp_mul(x, s) + fp_mul(y, c)
coupled_fixed_yn(xx, yy, cc, ss) == IntAdd(fp_mul(xx, ss), fp_mul(yy, cc))

circle_coupled_fixed_sym8_call(ccx, ccy, rr) ==
    /\ Enter("circle_coupled_fixed_sym8", ccx, ccy, rr)
    /\ calls' = <<>>
    /\ IF rr <= 0
       THEN /\ pc' = "done"
            /\ ret' = 0
            /\ UNCHANGED <<fb, locals>>
       ELSE /\ pc' = "loop"
            /\ c' \in to_fixed(cos_omega(rr))
            /\ s' \in to_fixed(sin_omega(rr))
            /\ x' \in to_fixed(int_to_double(rr))
            /\ y' = 0
            /\ pixels' = 0
            /\ UNCHANGED <<fb, coeff, scale, w0, w1, ix, iy, d, i, steps, oct,
                           ret>>

circle_coupled_fixed_sym8_step ==
    /\ pc = "loop"
    /\ alg = "circle_coupled_fixed_sym8"
    /\ ix' = fixed_to_int(x)
    /\ iy' = fixed_to_int(y)
    /\ IF iy' > ix'
       THEN /\ pc' = "done"
            /\ ret' = pixels
            /\ UNCHANGED <<fb, x, y, pixels, calls>>
       ELSE /\ fb' = fb_plot8(fb, cx, cy, ix', iy')
            /\ calls' = fb_plot8_calls(cx, cy, ix', iy')
            /\ pixels' = pixels + 8
            /\ x' = coupled_fixed_xn(x, y, c, s)
            /\ y' = coupled_fixed_yn(x, y, c, s)
            /\ UNCHANGED <<pc, ret>>
    /\ UNCHANGED <<alg, cx, cy, r, coeff, scale, c, s, w0, w1, d, i, steps,
                   oct, fb0, stab, trail>>

\* what the loop of circle_coupled_fixed_sym8, entered with the state x, y
\* and n plots counted, leaves when it has run to its end on the surface f:
\* the surface and the value returned
RECURSIVE circle_coupled_fixed_sym8_run(_, _, _, _, _, _, _, _)
circle_coupled_fixed_sym8_run(f, ccx, ccy, xx, yy, cc, ss, n) ==
    LET jx == fixed_to_int(xx)
        jy == fixed_to_int(yy)
    IN  IF jy > jx
        THEN [fb |-> f, ret |-> n]
        ELSE circle_coupled_fixed_sym8_run(
                 fb_plot8(f, ccx, ccy, jx, jy), ccx, ccy,
                 coupled_fixed_xn(xx, yy, cc, ss),
                 coupled_fixed_yn(xx, yy, cc, ss), cc, ss, n + 8)

\* the outcomes of circle_coupled_fixed_sym8(fb, cx, cy, r) on the surface f
circle_coupled_fixed_sym8_result(f, ccx, ccy, rr) ==
    IF rr <= 0 THEN {[fb |-> f, ret |-> 0]}
    ELSE {circle_coupled_fixed_sym8_run(f, ccx, ccy, x0, 0, c0, s0, 0) :
            c0 \in to_fixed(cos_omega(rr)), s0 \in to_fixed(sin_omega(rr)),
            x0 \in to_fixed(int_to_double(rr))}

-----------------------------------------------------------------------------
(* double arithmetic of the real-arithmetic sweeps.  The state of a sweep    *)
(* (w0, w1, x, y) and its coefficients are doubles below 32 in magnitude;    *)
(* they are carried as integers in units of 2^-26, and every product is     *)
(* rounded down to that unit, which is coarser than the rounding of a       *)
(* double but far finer than the distance of any sample of the radii        *)
(* modelled from a rounding boundary of round().                            *)

DBL_ONE == 67108864

\* the double <<n, f>> in units of 2^-26
dbl(v) == v[1] * DBL_ONE + v[2] \div (Q30 \div DBL_ONE)

\* a * b on double
dbl_mul(a, b) ==
    LET a1 == a \div 8192
        a0 == a % 8192
        b1 == b \div 8192
        b0 == b % 8192
    IN  a1 * b1 + (a1 * b0 + a0 * b1 + (a0 * b0) \div 8192) \div 8192

\* (int)round(v): nearest integer, halves away from zero
dbl_round(v) ==
    IF v >= 0 THEN (v + DBL_ONE \div 2) \div DBL_ONE
    ELSE 0 - (((0 - v) + DBL_ONE \div 2) \div DBL_ONE)

(* DF2 form, double *)

circle_df2_float_sym8_call(ccx, ccy, rr) ==
    /\ Enter("circle_df2_float_sym8", ccx, ccy, rr)
    /\ calls' = <<>>
    /\ IF rr <= 0
       THEN /\ pc' = "done"
            /\ ret' = 0
            /\ UNCHANGED <<fb, locals>>
       ELSE /\ pc' = "loop"
            /\ coeff' = dbl(two_cos_omega(rr))
            /\ scale' = dbl(neg_inv_omega(rr))
            /\ w0' = dbl(r_cos_omega(rr))
            /\ w1' = dbl(int_to_double(rr))
            /\ pixels' = 0
            /\ UNCHANGED <<fb, c, s, x, y, ix, iy, d, i, steps, oct, ret>>

circle_df2_float_sym8_step ==
    /\ pc = "loop"
    /\ alg = "circle_df2_float_sym8"
    /\ x' = dbl_round(w1)
    /\ y' = dbl_round(dbl_mul(w1 - w0, scale))
    /\ IF y' > x'
       THEN /\ pc' = "done"
            /\ ret' = pixels
            /\ UNCHANGED <<fb, w0, w1, pixels, calls>>
       ELSE /\ fb' = fb_plot8(fb, cx, cy, x', y')
            /\ calls' = fb_plot8_calls(cx, cy, x', y')
            /\ pixels' = pixels + 8
            /\ w1' = dbl_mul(coeff, w1) - w0
            /\ w0' = w1
            /\ UNCHANGED <<pc, ret>>
    /\ UNCHANGED <<alg, cx, cy, r, coeff, scale, c, s, ix, iy, d, i, steps,
                   oct, fb0, stab, trail>>

(* Coupled form, double *)

circle_coupled_float_sym8_call(ccx, ccy, rr) ==
    /\ Enter("circle_coupled_float_sym8", ccx, ccy, rr)
    /\ calls' = <<>>
    /\ IF rr <= 0
       THEN /\ pc' = "done"
            /\ ret' = 0
            /\ UNCHANGED <<fb, locals>>
       ELSE /\ pc' = "loop"
            /\ c' = dbl(cos_omega(rr))
            /\ s' = dbl(sin_omega(rr))
            /\ x' = dbl(int_to_double(rr))
            /\ y' = 0
            /\ pixels' = 0
            /\ UNCHANGED <<fb, coeff, scale, w0, w1, ix, iy, d, i, steps, oct,
                           ret>>

circle_coupled_float_sym8_step ==
    /\ pc = "loop"
    /\ alg = "circle_coupled_float_sym8"
    /\ ix' = dbl_round(x)
    /\ iy' = dbl_round(y)
    /\ IF iy' > ix'
       THEN /\ pc' = "done"
            /\ ret' = pixels
            /\ UNCHANGED <<fb, x, y, pixels, calls>>
       ELSE /\ fb' = fb_plot8(fb, cx, cy, ix', iy')
            /\ calls' = fb_plot8_calls(cx, cy, ix', iy')
            /\ pixels' = pixels + 8
            /\ x' = dbl_mul(x, c) - dbl_mul(y, s)
            /\ y' = dbl_mul(x, s) + dbl_mul(y, c)
            /\ UNCHANGED <<pc, ret>>
    /\ UNCHANGED <<alg, cx, cy, r, coeff, scale, c, s, w0, w1, d, i, steps,
                   oct, fb0, stab, trail>>

-----------------------------------------------------------------------------
(* Bresenham's midpoint circle *)

\* the decision variable after one pass of the loop body
bres_d(xx, yy, dd) ==
    IF dd < 0 THEN dd + 4 * xx + 6 ELSE dd + 4 * (xx - yy) + 10

\* y after one pass of the loop body
bres_y(yy, dd) == IF dd < 0 THEN yy ELSE yy - 1

\* int x = 0, y = r, d = 3 - 2*r
bres_setup(rr) ==
    /\ x' = 0
    /\ y' = rr
    /\ d' = 3 - 2 * rr

\* circle_bresenham rejecting only negative radii
circle_bresenham_call_negative_only(ccx, ccy, rr) ==
    /\ Enter("circle_bresenham", ccx, ccy, rr)
    /\ calls' = <<>>
    /\ IF rr < 0
       THEN /\ pc' = "done"
            /\ ret' = 0
            /\ UNCHANGED <<fb, locals>>
       ELSE /\ pc' = "loop"
            /\ bres_setup(rr)
            /\ pixels' = 0
            /\ UNCHANGED <<fb, coeff, scale, c, s, w0, w1, ix, iy, i, steps,
                           oct, ret>>

circle_bresenham_call(ccx, ccy, rr) ==
    /\ Enter("circle_bresenham", ccx, ccy, rr)
    /\ calls' = <<>>
    /\ IF rr <= 0
       THEN /\ pc' = "done"
            /\ ret' = 0
            /\ UNCHANGED <<fb, locals>>
       ELSE /\ pc' = "loop"
            /\ bres_setup(rr)
            /\ pixels' = 0
            /\ UNCHANGED <<fb, coeff, scale, c, s, w0, w1, ix, iy, i, steps,
                           oct, ret>>

circle_bresenham_step ==
    /\ pc = "loop"
    /\ alg = "circle_bresenham"
    /\ IF x <= y
       THEN /\ fb' = fb_plot8(fb, cx, cy, x, y)
            /\ calls' = fb_plot8_calls(cx, cy, x, y)
            /\ pixels' = pixels + 8
            /\ d' = bres_d(x, y, d)
            /\ y' = bres_y(y, d)
            /\ x' = x + 1
            /\ UNCHANGED <<pc, ret>>
       ELSE /\ pc' = "done"
            /\ ret' = pixels
            /\ UNCHANGED <<fb, x, y, d, pixels, calls>>
    /\ UNCHANGED <<alg, cx, cy, r, coeff, scale, c, s, w0, w1, ix, iy, i,
                   steps, oct, fb0, stab, trail>>

\* the surface circle_bresenham leaves when its loop, entered with x, y, d,
\* has run to its end on the surface f
RECURSIVE circle_bresenham_run(_, _, _, _, _, _)
circle_bresenham_run(f, ccx, ccy, xx, yy, dd) ==
    IF xx <= yy
    THEN circle_bresenham_run(fb_plot8(f, ccx, ccy, xx, yy), ccx, ccy,
                              xx + 1, bres_y(yy, dd), bres_d(xx, yy, dd))
    ELSE f

\* the surface after circle_bresenham(fb, cx, cy, r) on the surface f
circle_bresenham_surface(f, ccx, ccy, rr) ==
    IF rr <= 0 THEN f ELSE circle_bresenham_run(f, ccx, ccy, 0, rr, 3 - 2 * rr)

bres_sym8_call(rr) ==
    /\ Enter("bres_sym8", 0, 0, rr)
    /\ calls' = <<>>
    /\ IF rr <= 0
       THEN /\ pc' = "done"
            /\ ret' = 0
            /\ UNCHANGED <<fb, locals>>
       ELSE /\ pc' = "loop"
            /\ bres_setup(rr)
            /\ UNCHANGED <<fb, coeff, scale, c, s, w0, w1, ix, iy, i, steps,
                           oct, pixels, ret>>

bres_sym8_step ==
    /\ pc = "loop"
    /\ alg = "bres_sym8"
    /\ IF x <= y
       THEN /\ fb' = plot8(fb, x, y)
            /\ calls' = plot8_calls(x, y)
            /\ d' = bres_d(x, y, d)
            /\ y' = bres_y(y, d)
            /\ x' = x + 1
            /\ UNCHANGED <<pc, ret>>
       ELSE /\ pc' = "done"
            /\ ret' = count_px(fb)
            /\ UNCHANGED <<fb, x, y, d, calls>>
    /\ UNCHANGED <<alg, cx, cy, r, coeff, scale, c, s, w0, w1, ix, iy, i,
                   steps, oct, pixels, fb0, stab, trail>>

\* what the loop of bres_sym8, entered with x, y, d, leaves on the surface f
\* when it has run to its end
RECURSIVE bres_sym8_run(_, _, _, _)
bres_sym8_run(f, xx, yy, dd) ==
    IF xx <= yy
    THEN bres_sym8_run(plot8(f, xx, yy), xx + 1, bres_y(yy, dd),
                       bres_d(xx, yy, dd))
    ELSE f

\* the surface after bres_sym8(fb, r) on the surface f, and the value returned
bres_sym8_result(f, rr) ==
    IF rr <= 0 THEN [fb |-> f, ret |-> 0]
    ELSE LET g == bres_sym8_run(f, 0, rr, 3 - 2 * rr)
         IN  [fb |-> g, ret |-> count_px(g)]

\* bres_full with its seventh loop plotting what the sixth plots
bres_full_target_repeated(k, xx, yy) ==
    CASE k = 1 -> <<xx, yy>>
      [] k = 2 -> <<yy, xx>>
      [] k = 3 -> <<yy, 0 - xx>>
      [] k = 4 -> <<xx, 0 - yy>>
      [] k = 5 -> <<0 - xx, 0 - yy>>
      [] k = 6 -> <<0 - yy, 0 - xx>>
      [] k = 7 -> <<0 - yy, 0 - xx>>
      [] k = 8 -> <<0 - xx, yy>>

\* the argument pair of the plot call in the k-th loop of bres_full
bres_full_target(k, xx, yy) ==
    CASE k = 1 -> <<xx, yy>>
      [] k = 2 -> <<yy, xx>>
      [] k = 3 -> <<yy, 0 - xx>>
      [] k = 4 -> <<xx, 0 - yy>>
      [] k = 5 -> <<0 - xx, 0 - yy>>
      [] k = 6 -> <<0 - yy, 0 - xx>>
      [] k = 7 -> <<0 - yy, xx>>
      [] k = 8 -> <<0 - xx, yy>>

bres_full_call(rr) ==
    /\ Enter("bres_full", 0, 0, rr)
    /\ calls' = <<>>
    /\ IF rr <= 0
       THEN /\ pc' = "done"
            /\ ret' = 0
            /\ UNCHANGED <<fb, locals>>
       ELSE /\ pc' = "loop"
            /\ bres_setup(rr)
            /\ oct' = 1
            /\ UNCHANGED <<fb, coeff, scale, c, s, w0, w1, ix, iy, i, steps,
                           pixels, ret>>

\* one pass of the running while loop; when its test fails, the reset that
\* starts the next loop, or the return after the eighth
bres_full_step ==
    /\ pc = "loop"
    /\ alg = "bres_full"
    /\ IF x <= y
       THEN /\ fb' = plot(fb, bres_full_target(oct, x, y)[1],
                              bres_full_target(oct, x, y)[2])
            /\ calls' = <<bres_full_target(oct, x, y)>>
            /\ d' = bres_d(x, y, d)
            /\ y' = bres_y(y, d)
            /\ x' = x + 1
            /\ UNCHANGED <<pc, ret, oct>>
       ELSE IF oct < 8
            THEN /\ bres_setup(r)
                 /\ oct' = oct + 1
                 /\ UNCHANGED <<fb, pc, ret, calls>>
            ELSE /\ pc' = "done"
                 /\ ret' = count_px(fb)
                 /\ UNCHANGED <<fb, x, y, d, oct, calls>>
    /\ UNCHANGED <<alg, cx, cy, r, coeff, scale, c, s, w0, w1, ix, iy, i,
                   steps, pixels, fb0, stab, trail>>

-----------------------------------------------------------------------------
(* analyze_stability: the DF2 recurrence in double arithmetic *)

\* The doubles of analyze_stability are carried at the fixed scale 2^-16: the
\* rounding of this arithmetic is coarser than the double's, by amounts far
\* below the percent the drift is judged by.
STAB_ONE == 65536

\* (2.0 - coeff) * 2^36 and w0 = r * cos(omega) at the scale 2^-16, with
\* omega = 1.0 / (1.5 * r), from libm, for the radii analyzed
StabTable ==
    [rr \in {10, 1000} |->
        IF rr = 10 THEN [two_minus_coeff |-> 305306795, w0 |-> 653904]
                   ELSE [two_minus_coeff |-> 30542, w0 |-> 65535985]]

\* int steps = (int)(revolutions * 2 * M_PI / omega), where 2*pi/omega is
\* 3*pi*r: floor(3 * pi * n) for n = r * revolutions
analyze_stability_steps(rr, rev) ==
    LET n == rr * rev
    IN  n * 9 + (n * 4247 + (n * 7796 + (n * 769) \div 10000) \div 10000)
            \div 10000

\* k * w / 2^36 rounded to nearest, for k >= 0, on 12-bit limbs
stab_mul(k, w) ==
    LET b == IF w < 0 THEN 0 - w ELSE w
        a0 == k % 4096
        a1 == (k \div 4096) % 4096
        a2 == k \div 16777216
        b0 == b % 4096
        b1 == (b \div 4096) % 4096
        b2 == b \div 16777216
        p == a2 * b2 * 16777216 + (a2 * b1 + a1 * b2) * 4096
             + (a2 * b0 + a1 * b1 + a0 * b2)
             + ((a1 * b0 + a0 * b1) + (a0 * b0) \div 4096) \div 4096
        t == (p + 2048) \div 4096
    IN  IF w < 0 THEN 0 - t ELSE t

\* double w2 = coeff * w1 - w0, with coeff = 2.0 - (2.0 - coeff)
stab_w2(rr, ww0, ww1) ==
    2 * ww1 - stab_mul(StabTable[rr].two_minus_coeff, ww1) - ww0

\* floor of the square root of n, between lo and hi
RECURSIVE stab_isqrt(_, _, _)
stab_isqrt(n, lo, hi) ==
    IF lo >= hi THEN lo
    ELSE LET mid == (lo + hi + 1) \div 2
         IN  IF mid * mid <= n THEN stab_isqrt(n, mid, hi)
                               ELSE stab_isqrt(n, lo, mid - 1)

\* the power of two by which a magnitude is scaled down to 15 bits
RECURSIVE stab_scale(_)
stab_scale(m) == IF m < 32768 THEN 1 ELSE 2 * stab_scale(m \div 2)

\* sqrt(w0 * w0 + w1 * w1), to 15 significant bits
stab_amp(ww0, ww1) ==
    LET a == IF ww0 < 0 THEN 0 - ww0 ELSE ww0
        b == IF ww1 < 0 THEN 0 - ww1 ELSE ww1
        k == stab_scale(IF a > b THEN a ELSE b)
        q == (a \div k) * (a \div k) + (b \div k) * (b \div k)
    IN  k * stab_isqrt(q, 0, 46340)

analyze_stability_call(rr, rev) ==
    /\ pc = "idle"
    /\ alg' = "analyze_stability"
    /\ r' = rr
    /\ revolutions' = rev
    /\ w0' = StabTable[rr].w0
    /\ w1' = rr * STAB_ONE
    /\ max_amp' = stab_amp(w0', w1')
    /\ min_amp' = stab_amp(w0', w1')
    /\ steps' = analyze_stability_steps(rr, rev)
    /\ i' = 0
    /\ pc' = "loop"
    /\ UNCHANGED <<fb, cx, cy, coeff, scale, c, s, x, y, ix, iy, d, oct,
                   pixels, ret, fb0, calls, drift, trail>>

\* one pass of the for statement, or the assignment to *drift after the loop;
\* the loop is followed for MaxStabSteps iterations
analyze_stability_step ==
    /\ pc = "loop"
    /\ alg = "analyze_stability"
    /\ IF i < steps
       THEN /\ i < MaxStabSteps
            /\ LET amp == stab_amp(w0, w1)
               IN  /\ max_amp' = IF amp > max_amp THEN amp ELSE max_amp
                   /\ min_amp' = IF amp < min_amp THEN amp ELSE min_amp
            /\ w1' = stab_w2(r, w0, w1)
            /\ w0' = w1
            /\ i' = i + 1
            /\ UNCHANGED <<pc, drift>>
       ELSE /\ pc' = "done"
            /\ drift' = <<max_amp, min_amp>>
            /\ UNCHANGED <<w0, w1, i, max_amp, min_amp>>
    /\ UNCHANGED <<fb, alg, cx, cy, r, coeff, scale, c, s, x, y, ix, iy, d,
                   steps, oct, pixels, ret, fb0, calls, revolutions, trail>>

-----------------------------------------------------------------------------
(* Specifications *)

Step ==
    \/ circle_df2_float_sym8_step
    \/ circle_coupled_float_sym8_step
    \/ circle_df2_fixed_sym8_step
    \/ circle_coupled_fixed_sym8_step
    \/ circle_bresenham_step
    \/ df2_full_step
    \/ df2_sym8_step
    \/ bres_sym8_step
    \/ bres_full_step

Next ==
    \/ FbClear
    \/ \E px \in Coords, py \in Coords : FbPlot(px, py)
    \/ \E px \in Coords, py \in Coords : Plot(px, py)
    \/ \E ccx \in Centers, ccy \in Centers, px \in Samples, py \in Samples :
         FbPlot8(ccx, ccy, px, py)
    \/ \E px \in Samples, py \in Samples : Plot8(px, py)
    \/ \E ccx \in Centers, ccy \in Centers, rr \in Radii :
         \/ circle_df2_float_sym8_call(ccx, ccy, rr)
         \/ circle_df2_fixed_sym8_call(ccx, ccy, rr)
         \/ circle_coupled_float_sym8_call(ccx, ccy, rr)
         \/ circle_coupled_fixed_sym8_call(ccx, ccy, rr)
         \/ circle_bresenham_call(ccx, ccy, rr)
    \/ \E rr \in Radii :
         \/ df2_full_call(rr)
         \/ df2_sym8_call(rr)
         \/ bres_sym8_call(rr)
         \/ bres_full_call(rr)
    \/ Step

Spec == Init /\ [][Next]_vars

\* The benchmark: the Q16.16 sweeps at the center of a cleared surface, for
\* every radius up to MaxBenchRadius
InitBench ==
    /\ Init
    /\ fb = fb_create(MaxWidth, MaxHeight)

NextBench ==
    \/ FbClear
    \/ \E rr \in BenchRadii :
         \/ circle_df2_fixed_sym8_call(0, 0, rr)
         \/ circle_coupled_fixed_sym8_call(0, 0, rr)
    \/ circle_df2_fixed_sym8_step
    \/ circle_coupled_fixed_sym8_step

SpecBench == InitBench /\ [][NextBench]_vars

\* The comparison of run_benchmark: the real-arithmetic DF2 sweep and the
\* baseline on a cleared surface three times the largest radius wide and high,
\* which holds every circle drawn
InitCmp == InitOn(fb_create(3 * MaxCmpRadius, 3 * MaxCmpRadius))

NextCmp ==
    \/ FbClear
    \/ \E ccx \in Centers, ccy \in Centers, rr \in 1 .. MaxCmpRadius :
         \/ circle_df2_float_sym8_call(ccx, ccy, rr)
         \/ circle_bresenham_call(ccx, ccy, rr)
    \/ circle_df2_float_sym8_step
    \/ circle_bresenham_step

SpecCmp == InitCmp /\ [][NextCmp]_vars

\* The two Q16.16 forms side by side, on the surface of the comparison
NextForms ==
    \/ FbClear
    \/ \E ccx \in Centers, ccy \in Centers, rr \in 1 .. MaxCmpRadius :
         \/ circle_df2_fixed_sym8_call(ccx, ccy, rr)
         \/ circle_coupled_fixed_sym8_call(ccx, ccy, rr)
    \/ circle_df2_fixed_sym8_step
    \/ circle_coupled_fixed_sym8_step

SpecForms == InitCmp /\ [][NextForms]_vars

\* The full-circle sweep at the radii of the comparison program, on a cleared
\* surface three times the largest radius wide and high
FullRadii == {rr \in 1 .. MaxFullRadius : rr % 25 = 0}

InitFull == InitOn(fb_create(3 * MaxFullRadius, 3 * MaxFullRadius))

NextFull ==
    \/ FbClear
    \/ \E rr \in FullRadii : df2_full_call(rr)
    \/ df2_full_step

SpecFull == InitFull /\ [][NextFull]_vars

\* fixed_to_int on its own: raw values at and next to the multiples of one
\* half, and at both ends of the 32-bit range
FixedInputs ==
    {k * FP_HALF + e : k \in (0 - MaxFixedHalves) .. MaxFixedHalves,
                       e \in {0 - 1, 0, 1}}
        \cup {INT_MIN, INT_MIN + 1, INT_MIN + FP_HALF,
              INT_MAX - FP_HALF - 1, INT_MAX - FP_HALF, INT_MAX}

\* x = fixed_to_int(w1) for an arbitrary raw value w1
FixedToInt(f) ==
    /\ Enter("fixed_to_int", 0, 0, 0)
    /\ w1' = f
    /\ x' = fixed_to_int(f)
    /\ ret' = x'
    /\ calls' = <<>>
    /\ pc' = "done"
    /\ UNCHANGED <<fb, coeff, scale, c, s, w0, y, ix, iy, d, i, steps, oct,
                   pixels>>

NextFixed ==
    \/ FbClear
    \/ \E f \in FixedInputs : FixedToInt(f)

SpecFixed == InitBench /\ [][NextFixed]_vars

\* The stability analysis of main: 100 revolutions at radius 1000, and short
\* analyses that run to their end
StabRuns == {<<10, 1>>, <<10, 2>>, <<1000, 0>>, <<1000, 100>>}

NextStab ==
    \/ FbClear
    \/ \E run \in StabRuns : analyze_stability_call(run[1], run[2])
    \/ analyze_stability_step

SpecStab == InitBench /\ [][NextStab]_vars

\* Termination: the Q16.16 DF2 sweeps at small radii and at a radius far above
\* the critical radius.  Once called, a sweep runs its loop to the end: every
\* iteration that is due is eventually executed (weak fairness of the loop
\* bodies); nothing forces a call to be made.
TermRadii == (1 .. MaxTermRadius) \cup {30000}

NextTerm ==
    \/ FbClear
    \/ \E rr \in TermRadii :
         \/ circle_df2_fixed_sym8_call(0, 0, rr)
         \/ df2_sym8_call(rr)
    \/ \E rr \in 1 .. MaxTermRadius : df2_full_call(rr)
    \/ circle_df2_fixed_sym8_step
    \/ df2_sym8_step
    \/ df2_full_step

SpecTerm ==
    /\ InitBench
    /\ [][NextTerm]_vars
    /\ WF_vars(circle_df2_fixed_sym8_step)
    /\ WF_vars(df2_sym8_step)
    /\ WF_vars(df2_full_step)


-----------------------------------------------------------------------------
(* Properties *)

SweepNames ==
    {"circle_df2_float_sym8", "circle_df2_fixed_sym8",
     "circle_coupled_float_sym8", "circle_coupled_fixed_sym8",
     "circle_bresenham", "df2_full", "df2_sym8", "bres_sym8", "bres_full"}

\* the single-octant sweeps of df2_circle_benchmark.c
OctantSweeps ==
    {"circle_df2_float_sym8", "circle_df2_fixed_sym8",
     "circle_coupled_float_sym8", "circle_coupled_fixed_sym8"}

\* the sample last handed to the expander by a recurrence sweep
SampleX == IF alg \in {"circle_coupled_float_sym8", "circle_coupled_fixed_sym8"}
           THEN ix ELSE x
SampleY == IF alg \in {"circle_coupled_float_sym8", "circle_coupled_fixed_sym8"}
           THEN iy ELSE y

\* a recurrence sweep is in its loop and has just expanded SampleX, SampleY
MidSweep(names) == alg \in names /\ pc = "loop" /\ calls # <<>>

\* the eight symmetric images of (px, py) about (ccx, ccy)
Images(ccx, ccy, px, py) ==
    {<<ccx + a * px, ccy + b * py>> : a \in {0 - 1, 1}, b \in {0 - 1, 1}}
    \cup {<<ccx + a * py, ccy + b * px>> : a \in {0 - 1, 1}, b \in {0 - 1, 1}}

\* the targets of a sequence of plot calls, as a set
Targets(cs) == {cs[k] : k \in 1..Len(cs)}

Column(t) == t[1] + fb.width \div 2
Row(t) == t[2] + fb.height \div 2
InBounds(t) ==
    /\ Column(t) \in 0..(fb.width - 1)
    /\ Row(t) \in 0..(fb.height - 1)
PixelOf(t) == Row(t) * fb.width + Column(t)

Abs(n) == IF n < 0 THEN 0 - n ELSE n

\* C1: every sweep variant called with a radius r <= 0 returns 0 at once and
\* leaves every pixel of the surface as it was, whatever the surface held.
C1_NonPositiveRadiusIsNoOp ==
    (alg \in SweepNames /\ r <= 0) =>
        /\ pc = "done"
        /\ ret = 0
        /\ fb.pixels = fb0
        /\ calls = <<>>

C1_Witness ==
    /\ alg = "circle_df2_fixed_sym8" /\ r = MinRadius /\ pc = "done"
    /\ fb0 # {}

\* C2: on a cleared surface and with r > 0, the value a single-octant sweep
\* returns is the number of pixels set on the surface when it returns.
C2_ReturnIsPixelCount ==
    (alg \in OctantSweeps /\ pc = "done" /\ r > 0 /\ fb0 = {}) =>
        ret = fb_count_pixels(fb)

\* C3: one octant expansion issues exactly eight plot calls, its targets are
\* exactly the eight symmetric images of the sample about the center, and no
\* pixel other than those of the in-bounds targets is set.
C3_ExpansionTargets ==
    /\ (alg \in {"fb_plot8", "plot8"} \/ MidSweep(OctantSweeps \cup {"df2_sym8"})) =>
          /\ Len(calls) = 8
          /\ Targets(calls) = Images(cx, cy, SampleX, SampleY)
    /\ alg \in {"fb_plot8", "plot8"} =>
          fb.pixels = fb0 \cup {PixelOf(t) : t \in {u \in Images(cx, cy, x, y) : InBounds(u)}}

C3_Witness ==
    /\ alg = "fb_plot8" /\ cx = 1 /\ cy = 0 - 1 /\ x = 2 /\ y = 1
    /\ fb.pixels # fb0

\* C4: after an expansion onto a cleared surface the pixel count is the
\* number of distinct in-bounds points among the eight emitted; a sample with
\* x = y or y = 0 is emitted with at least one coinciding pair; expanding the
\* same sample again changes neither the surface nor its count.
C4_DuplicatesAbsorbed ==
    alg \in {"fb_plot8", "plot8"} =>
        /\ fb0 = {} =>
              fb_count_pixels(fb) =
                  Cardinality({t \in Targets(calls) : InBounds(t)})
        /\ (x = y \/ y = 0) =>
              \E j \in 1..8, k \in 1..8 : j < k /\ calls[j] = calls[k]
        /\ IF alg = "fb_plot8"
           THEN fb_plot8(fb, cx, cy, x, y) = fb
           ELSE plot8(fb, x, y) = fb

C4_Witness ==
    /\ alg = "fb_plot8" /\ fb0 = {} /\ x = 1 /\ y = 1 /\ cx = 0 /\ cy = 0
    /\ fb_count_pixels(fb) = 4

\* C5: a plot never writes outside the pixel array: a target that, shifted
\* by half the width and half the height, lies inside the surface sets
\* exactly its pixel and changes no other; a target outside changes nothing.
C5_PlotClips ==
    alg \in {"fb_plot", "plot"} =>
        /\ fb.pixels \subseteq 0..(fb.width * fb.height - 1)
        /\ IF InBounds(calls[1])
           THEN fb.pixels = fb0 \cup {PixelOf(calls[1])}
           ELSE fb.pixels = fb0

C5_Witness ==
    /\ alg = "fb_plot" /\ calls = << <<fb.width - fb.width \div 2, 0>> >>
    /\ fb.pixels = fb0 /\ fb0 = {fb.width - 1}

\* C6: in the Q16.16 single-octant sweeps every sample handed to the octant
\* expander satisfies 0 <= y <= x.
C6_SamplesInFirstOctant ==
    MidSweep({"circle_df2_fixed_sym8", "circle_coupled_fixed_sym8"}) =>
        (0 <= SampleY /\ SampleY <= SampleX)

C6_Witness ==
    /\ MidSweep({"circle_df2_fixed_sym8"}) /\ r = MaxBenchRadius
    /\ SampleY = SampleX /\ SampleX > 0

\* C7: every sample plotted by the Q16.16 DF2 sweep for a radius 1 <= r <= 100
\* satisfies |x*x + y*y - r*r| <= 2*r + 1.
C7_SamplesWithinOnePixel ==
    (MidSweep({"circle_df2_fixed_sym8"}) /\ 1 <= r /\ r <= 100) =>
        Abs(x * x + y * y - r * r) <= 2 * r + 1

\* C7, as amended: the bound 2*r + 1 holds for 1 <= r <= 52; for
\* 53 <= r <= 100 the samples stay within |x*x + y*y - r*r| <= 8*r.
C7_SamplesNearCircle ==
    (MidSweep({"circle_df2_fixed_sym8"}) /\ 1 <= r /\ r <= 100) =>
        /\ r <= 52 => Abs(x * x + y * y - r * r) <= 2 * r + 1
        /\ Abs(x * x + y * y - r * r) <= 8 * r

C7_Witness ==
    /\ MidSweep({"circle_df2_fixed_sym8"}) /\ r = 92
    /\ Abs(x * x + y * y - r * r) > 7 * r

\* C8: every sweep terminates: for every radius r > 0, above the critical
\* radius too, a sweep that has entered its loop eventually returns.
C8_SweepTerminates == (pc = "loop") ~> (pc = "done")

\* C9: for every radius r > 0 the real-arithmetic DF2 sweep and the baseline,
\* each run on a cleared surface with the same center, set the same number of
\* pixels within +-1.
C9_SameCountAsBaseline ==
    (alg = "circle_df2_float_sym8" /\ pc = "done" /\ r > 0 /\ fb0 = {}) =>
        Abs(fb_count_pixels(fb) - fb_count_pixels(
                circle_bresenham_surface(fb_clear(fb), cx, cy, r))) <= 1

\* C10: stabilityDrift(radius = 1000, revolutions = 100) stays below 1.01.
\* The drift is the last value of max_amp / min_amp, a quotient that never
\* decreases during the run: it ends below 1.01 only if it is below 1.01 all
\* along.
C10_DriftBelowOnePercent ==
    (alg = "analyze_stability" /\ r = 1000 /\ revolutions = 100) =>
        max_amp - min_amp <= (min_amp - 1) \div 100

\* C11: for every raw value f with f + 2^15 representable in 32 bits,
\* fixed_to_int(f) is the integer nearest to f / 2^16, a tie going to the
\* larger one for either sign: -2^15 <= f - fixed_to_int(f) * 2^16 < 2^15.
C11_RoundsHalfUp ==
    (alg = "fixed_to_int" /\ pc = "done" /\ w1 <= INT_MAX - FP_HALF) =>
        /\ ret = x
        /\ 0 - FP_HALF <= w1 - x * FP_ONE
        /\ w1 - x * FP_ONE < FP_HALF

\* the tie -0.5 has been converted to 0
C11_Witness ==
    alg = "fixed_to_int" /\ pc = "done" /\ w1 = 0 - FP_HALF /\ x = 0

\* C12: for every radius below the critical radius, circle_df2_fixed_sym8
\* and circle_coupled_fixed_sym8, run on cleared surfaces with the same
\* center, perform the same number of steps, return the same count and leave
\* the same pixels set.
C12_FormsAgree ==
    (alg = "circle_df2_fixed_sym8" /\ pc = "done" /\ r > 0 /\ fb0 = {}) =>
        \A o \in circle_coupled_fixed_sym8_result(fb_clear(fb), cx, cy, r) :
            /\ ret \div 8 = o.ret \div 8
            /\ ret = o.ret
            /\ fb.pixels = o.fb.pixels

\* C13: at the radii 25, 50, 75 and 100 df2_full performs exactly its
\* precomputed number of iterations, and by then its samples have passed
\* through all four quadrants and come back to the starting sample (r, 0).
C13_FullSweepCloses ==
    (alg = "df2_full" /\ pc = "done" /\ r \in {25, 50, 75, 100}) =>
        /\ i = steps
        /\ quadrants = 1 .. 4
        /\ closed

\* C14: for every radius r > 0 and every initial surface content, df2_full
\* returns the number of pixels that went from 0 to 1 during the call; the
\* samples outside the surface and those hitting a set pixel add nothing, and
\* no pixel is cleared.
C14_ReturnIsNewPixels ==
    (alg = "df2_full" /\ r > 0) =>
        /\ fb0 \subseteq fb.pixels
        /\ pixels = Cardinality(fb.pixels \ fb0)
        /\ pc = "done" => ret = count_px(fb) - Cardinality(fb0)

\* a sweep on a surface that held a pixel has returned a count: the samples
\* on the held pixel and those beyond the edge were not counted
C14_Witness ==
    /\ alg = "df2_full" /\ pc = "done" /\ r = 2
    /\ fb0 = {fb.width - 1} /\ ret > 0 /\ ret < i

\* C15: for every radius r > 0 and every surface size, bres_sym8 and
\* bres_full, each run on a cleared surface, take at most r + 1 iterations
\* per loop, leave the same pixels set and return the same count; every pair
\* they generate satisfies 0 <= x <= y <= r.
C15_BaselinesAgree ==
    (alg \in {"bres_sym8", "bres_full"} /\ r > 0) =>
        /\ pc = "loop" => (0 <= x /\ x <= r + 1 /\ y <= r)
        /\ (pc = "loop" /\ x <= y) => (0 <= x /\ y <= r)
        /\ (alg = "bres_sym8" /\ calls # <<>>) =>
              (0 <= calls[1][1] /\ calls[1][1] <= calls[1][2]
               /\ calls[1][2] <= r)
        /\ (alg = "bres_full" /\ pc = "done" /\ fb0 = {}) =>
              /\ fb.pixels = bres_sym8_result(fb_clear(fb), r).fb.pixels
              /\ ret = bres_sym8_result(fb_clear(fb), r).ret

\* bres_full has gone through its eight loops on a cleared surface
C15_Witness ==
    /\ alg = "bres_full" /\ pc = "done" /\ r = 2 /\ oct = 8
    /\ fb0 = {} /\ ret > 0

=============================================================================
